---------------------------- MODULE Spec2Model ----------------------------
(***************************************************************************)
(* PSO-BADINIT, src/libs/pso_nmf.cpp: class PSO (a PSOConfig, the setters   *)
(* and fit) as a state machine.                                            *)
(*                                                                         *)
(* Numbers.  A double is modelled as an integer: matrix entries, bounds,    *)
(* positions, velocities and costs are whole numbers, and a product with a  *)
(* fractional factor (the 0.1 of the initial velocity, the coefficients     *)
(* inertia, c1, c2 and the uniform(0,1) draws) is rounded down to a whole   *)
(* number.  Coefficients are counted in units of 1/CoefScale, a uniform     *)
(* draw in units of 1/RngMod.  NaN and infinite values are not modelled     *)
(* (global_best_cost starts at Infinity, a number above every cost).        *)
(*                                                                         *)
(* Indices are the source's: vectors and matrices are functions on 0..n-1.  *)
(***************************************************************************)
EXTENDS Integers, Sequences, FiniteSets, TLC

VARIABLES
    config_,           \* PSO::config_ (PSOConfig)
    seedSrc,           \* history: who wrote config_.seed last, "clock" or "caller"
    evalOrder,         \* the build: which operand of line 104's subtraction draws first
    nsets,             \* history: setter calls made so far
    cfgLog,            \* history: the Config as constructed, and the setter calls since
    pc,                \* position inside fit, "idle" between calls
    W_np, X_np,        \* the arrays the caller passed to the running call
    W, X,              \* the Eigen matrices of lines 60-61
    k, s, dim, pop,    \* locals of lines 50-66
    rng,               \* std::mt19937 of line 69: <<>> before it exists, <<state>> after
    pos, vel, pbest_pos, pbest_cost, cost,   \* lines 74-78
    global_best_cost, gbest_pos,             \* lines 81-82
    iter, i, d,        \* loop counters of lines 101-102, 116-119
    printed,           \* history: the py::print calls of the running call, <<iter, cost>>
    draws,             \* history: <<initDist draws, unif01 draws>> of the running call
    evals,             \* history: eval_cost calls of the running call
    trace,             \* history: the swarm after each evaluation of the running call
    last, prev         \* history: the last finished call and the one before it

vars == <<config_, seedSrc, evalOrder, nsets, cfgLog, pc, W_np, X_np, W, X, k, s, dim, pop,
          rng, pos, vel, pbest_pos, pbest_cost, cost, global_best_cost, gbest_pos,
          iter, i, d, printed, draws, evals, trace, last, prev>>

locals == <<W, X, k, s, dim, pop, rng, pos, vel, pbest_pos, pbest_cost, cost,
            global_best_cost, gbest_pos, iter, i, d>>

-----------------------------------------------------------------------------
(* Bounds of the model. *)

MaxPop == 3            \* populations 0..MaxPop are explored
MaxIters == 2          \* max_iters 0..MaxIters are explored
MaxSets == 1           \* setter calls on one object
LongIters == 51        \* max_iters around LongIters are explored by the long runs
MaxSeq == 2            \* length of the setter sequences
MaxDim == 3            \* k and s of the flattening round trip

-----------------------------------------------------------------------------
(* Program constants. *)

CoefScale == 100000            \* inertia, c1, c2 are counted in 1/CoefScale
DefaultPopulation == 30
DefaultMaxIters == 500
DefaultInertia == 72900        \* 0.729
DefaultC1 == 149445            \* 1.49445
DefaultC2 == 149445
DefaultLb == 0
DefaultUb == 10
InitVelDiv == 10               \* "* 0.1" of line 104
PrintEvery == 50
MinPop == 2
Infinity == 1000000            \* std::numeric_limits<double>::infinity()
RngMod == 8                    \* the generator's period and resolution
RngMul == 5
RngInc == 3

PSOConfig == [population |-> DefaultPopulation, max_iters |-> DefaultMaxIters,
              inertia |-> DefaultInertia, c1 |-> DefaultC1, c2 |-> DefaultC2,
              lb |-> DefaultLb, ub |-> DefaultUb, verbose |-> FALSE, seed |-> 0]

-----------------------------------------------------------------------------
(* numpy arrays (c_style: row-major) and Eigen matrices (column-major).     *)

NpArray(shape, data) ==
    [ndim |-> Len(shape), shape |-> shape,
     data |-> [n \in 0..(Len(data) - 1) |-> data[n + 1]]]

NoArray == [ndim |-> 0, shape |-> <<>>, data |-> <<>>]

\* Entry (r, c) of a 2-D c_style numpy array, as the caller reads it.
NpAt(a, r, c) == a.data[r * a.shape[2] + c]

\* Eigen::Map<const Matrix>(ptr, rows, cols): MatrixXd is column-major, so
\* entry (r, c) is ptr[c * rows + r].
EigenMap(ptr, rows, cols) ==
    [rc \in (0..(rows - 1)) \X (0..(cols - 1)) |-> ptr[rc[2] * rows + rc[1]]]

Zeros(n) == [x \in 0..(n - 1) |-> 0]

-----------------------------------------------------------------------------
(* The random number generator: a deterministic stream fixed by its seed.   *)

RngSeed(seed) == <<seed % RngMod>>

RngNext(r) == <<(RngMul * r[1] + RngInc) % RngMod>>

\* The n-th value drawn from r (n >= 1).
RECURSIVE RngAfter(_, _)
RngAfter(r, n) == IF n = 0 THEN r ELSE RngAfter(RngNext(r), n - 1)

Raw(r, n) == RngAfter(r, n)[1]

\* std::uniform_real_distribution<double>(a, b) applied to a raw value: [a, b).
Uniform(a, b, raw) == a + ((b - a) * raw) \div RngMod

-----------------------------------------------------------------------------
(* eval_cost, lines 85-98. *)

ClampLb(v) == IF v < config_.lb THEN config_.lb ELSE v

\* H(i, j) of lines 87-94, from the flattened vector.
HOf(flatH, kk, ss) ==
    [rc \in (0..(kk - 1)) \X (0..(ss - 1)) |-> ClampLb(flatH[rc[2] * kk + rc[1]])]

RECURSIVE SumTo(_, _)
SumTo(f, n) == IF n < 0 THEN 0 ELSE f[n] + SumTo(f, n - 1)

\* (A * B)(r, c) for A with kk columns.
MatMulAt(A, B, kk, r, c) ==
    SumTo([x \in 0..(kk - 1) |-> A[<<r, x>>] * B[<<x, c>>]], kk - 1)

\* ||XX - WW * H||_F^2, over the rows and columns of XX.
SquaredNorm(WW, XX, H, gg, kk, ss) ==
    LET R == [rc \in (0..(gg - 1)) \X (0..(ss - 1)) |->
                 XX[rc] - MatMulAt(WW, H, kk, rc[1], rc[2])]
        rowSum == [r \in 0..(gg - 1) |->
                     SumTo([c \in 0..(ss - 1) |-> R[<<r, c>>] * R[<<r, c>>]], ss - 1)]
    IN  SumTo(rowSum, gg - 1)

eval_cost(flatH) ==
    SquaredNorm(W, X, HOf(flatH, k, s), X_np.shape[1], k, s)


-----------------------------------------------------------------------------
(* The values the model explores. *)

ClockValues == {0, 3}      \* high_resolution_clock counts, cast to unsigned
EvalOrders == {"lhs_first", "rhs_first"}

\* W and X as the caller builds them (row-major).
ValidInputs ==
    { <<NpArray(<<2, 1>>, <<1, 1>>),       NpArray(<<2, 1>>, <<2, 2>>)>>,
      <<NpArray(<<1, 1>>, <<1>>),          NpArray(<<1, 1>>, <<0>>)>>,
      <<NpArray(<<2, 2>>, <<1, 0, 1, 1>>), NpArray(<<2, 1>>, <<2, 1>>)>>,
      <<NpArray(<<2, 1>>, <<1, 1>>),       NpArray(<<2, 2>>, <<1, 2, 0, 1>>)>>,
      <<NpArray(<<1, 2>>, <<1, 1>>),       NpArray(<<1, 2>>, <<1, 2>>)>> }

InvalidInputs ==
    { <<NpArray(<<2>>, <<1, 1>>),          NpArray(<<2, 1>>, <<2, 2>>)>>,
      <<NpArray(<<2, 1>>, <<1, 1>>),       NpArray(<<1, 1, 1>>, <<2>>)>>,
      <<NpArray(<<2, 1>>, <<1, 1>>),       NpArray(<<1, 1>>, <<2>>)>> }

Inputs == ValidInputs \cup InvalidInputs

BoundValues == {<<0, 4>>, <<1, 5>>, <<2, 2>>}   \* <<lb, ub>>, lb <= ub

-----------------------------------------------------------------------------
(* Construction, lines 35-38. *)

\* PSO(): the seed is read from the clock.
DefaultCtor(clock) == [PSOConfig EXCEPT !.seed = clock]

\* PSO(const PSOConfig &cfg): a seed of 0 is replaced by the clock's value.
CfgCtor(cfg, clock) == IF cfg.seed = 0 THEN [cfg EXCEPT !.seed = clock] ELSE cfg

NoCall == [outcome |-> "none", config |-> PSOConfig, W_np |-> NoArray, X_np |-> NoArray,
           H |-> NoArray, trace |-> <<>>, printed |-> <<>>, draws |-> <<0, 0>>,
           evals |-> 0, pop |-> 0]

\* Everything but the object itself, right after construction.
Fresh ==
    /\ nsets = 0
    /\ cfgLog = [ctor |-> config_, calls |-> <<>>]
    /\ pc = "idle"
    /\ W_np = NoArray /\ X_np = NoArray
    /\ W = <<>> /\ X = <<>>
    /\ k = 0 /\ s = 0 /\ dim = 0 /\ pop = 0
    /\ rng = <<>>
    /\ pos = <<>> /\ vel = <<>> /\ pbest_pos = <<>> /\ pbest_cost = <<>> /\ cost = <<>>
    /\ global_best_cost = Infinity /\ gbest_pos = <<>>
    /\ iter = 0 /\ i = 0 /\ d = 0
    /\ printed = <<>> /\ draws = <<0, 0>> /\ evals = 0 /\ trace = <<>>
    /\ last = NoCall /\ prev = NoCall

-----------------------------------------------------------------------------
(* fit, lines 41-162. *)

\* Line 47 alone: the row counts are not compared.
ValidArgsNoRows(Wn, Xn) == Wn.ndim = 2 /\ Xn.ndim = 2

\* Lines 47 and 54: the two checks that throw.
ValidArgs(Wn, Xn) ==
    /\ Wn.ndim = 2 /\ Xn.ndim = 2
    /\ Wn.shape[1] = Xn.shape[1]

\* Lines 65-66 with a floor of one particle.
EffectivePopOne(p) == IF p < 1 THEN 1 ELSE p

\* Lines 65-66.
EffectivePop(p) == IF p < MinPop THEN MinPop ELSE p

\* Line 116 with <= for <: one round too many.
LoopCondInclusive(it) == it <= config_.max_iters

\* Line 116 with a convergence test: the loop stops once the cost is 0.
LoopCondEarlyExit(it) == it < config_.max_iters /\ global_best_cost > 0

\* Line 116: the loop's condition.
LoopCond(it) == it < config_.max_iters

\* Project without line 129: the upper bound is not enforced.
ProjectLowerOnly(x) == IF x < config_.lb THEN config_.lb ELSE x

\* Project without line 127: the lower bound is not enforced.
ProjectUpperOnly(x) == IF x > config_.ub THEN config_.ub ELSE x

\* Lines 127-129: the projection onto [lb, ub].
Project(x) ==
    LET lo == IF x < config_.lb THEN config_.lb ELSE x
    IN  IF lo > config_.ub THEN config_.ub ELSE lo

\* Line 135 with <= for <.
ImprovesPersonalOrTies(f, ii) == f <= pbest_cost[ii]

\* Line 135.
ImprovesPersonal(f, ii) == f < pbest_cost[ii]

\* Lines 109 and 138 without their comparison: every new personal best
\* becomes the global best.
ImprovesGlobalAlways(f) == TRUE

\* Lines 109 and 138 with <= for <.
ImprovesGlobalOrTies(f) == f <= global_best_cost

\* Lines 109 and 138.
ImprovesGlobal(f) == f < global_best_cost

\* Line 69 with a generator that outlives the call: a later call goes on
\* with the stream where the call before left it.
FitSeedContinued == config_.seed + last.draws[1] + last.draws[2]

\* Line 69 with the clock read again by every call of a clock-seeded object.
FitSeedPerCall ==
    IF seedSrc = "clock" /\ last.outcome # "none" THEN config_.seed + 1 ELSE config_.seed

\* Line 69: what the generator is seeded with.
FitSeed == config_.seed

\* Line 145 without its second disjunct.
ShouldPrintNoLast(it) ==
    config_.verbose /\ it % PrintEvery = 0

\* Line 145.
ShouldPrint(it) ==
    config_.verbose /\ (it % PrintEvery = 0 \/ it = config_.max_iters - 1)

Snapshot(rnd, ii, p, v, pbp, pbc, c, gbc, gbp) ==
    [rnd |-> rnd, i |-> ii, pos |-> p, vel |-> v, pbest_pos |-> pbp, pbest_cost |-> pbc,
     cost |-> c, global_best_cost |-> gbc, gbest_pos |-> gbp]

\* The caller invokes fit(W_np, X_np).
Call(Wn, Xn) ==
    /\ pc = "idle"
    /\ pc' = "entered"
    /\ W_np' = Wn /\ X_np' = Xn
    /\ printed' = <<>> /\ draws' = <<0, 0>> /\ evals' = 0 /\ trace' = <<>>
    /\ UNCHANGED <<config_, seedSrc, evalOrder, nsets, cfgLog, last, prev>>
    /\ UNCHANGED locals

Finished(outcome, H) ==
    [outcome |-> outcome, config |-> config_, W_np |-> W_np, X_np |-> X_np, H |-> H,
     trace |-> trace, printed |-> printed, draws |-> draws, evals |-> evals, pop |-> pop]

\* Lines 47, 54: throw std::runtime_error.
Throw ==
    /\ pc = "entered"
    /\ ~ValidArgs(W_np, X_np)
    /\ pc' = "idle"
    /\ last' = Finished("runtime_error", NoArray) /\ prev' = last
    /\ W_np' = NoArray /\ X_np' = NoArray
    /\ UNCHANGED <<config_, seedSrc, evalOrder, nsets, cfgLog, printed, draws, evals, trace>>
    /\ UNCHANGED locals

\* Lines 49-82: the sizes, the Eigen maps, the generator and the empty swarm.
Setup ==
    /\ pc = "entered"
    /\ ValidArgs(W_np, X_np)
    /\ LET gW == W_np.shape[1]
           kk == W_np.shape[2]
           gX == X_np.shape[1]
           ss == X_np.shape[2]
           pp == EffectivePop(config_.population)
       IN  /\ k' = kk /\ s' = ss /\ dim' = kk * ss /\ pop' = pp
           /\ W' = EigenMap(W_np.data, gW, kk)
           /\ X' = EigenMap(X_np.data, gX, ss)
           /\ pos' = [p \in 0..(pp - 1) |-> Zeros(kk * ss)]
           /\ vel' = [p \in 0..(pp - 1) |-> Zeros(kk * ss)]
           /\ pbest_pos' = [p \in 0..(pp - 1) |-> Zeros(kk * ss)]
           /\ pbest_cost' = Zeros(pp)
           /\ cost' = Zeros(pp)
           /\ gbest_pos' = Zeros(kk * ss)
    /\ rng' = RngSeed(FitSeed)
    /\ global_best_cost' = Infinity
    /\ iter' = 0 /\ i' = 0 /\ d' = 0
    /\ pc' = "init"
    /\ UNCHANGED <<config_, seedSrc, evalOrder, nsets, cfgLog, W_np, X_np, printed, draws, evals,
                   trace, last, prev>>

\* Lines 103-105, for particle i and dimension d.
InitDim ==
    /\ pc = "init"
    /\ LET lb == config_.lb
           ub == config_.ub
           p  == Uniform(lb, ub, Raw(rng, 1))
           a  == Uniform(lb, ub, Raw(rng, 2))
           b  == Uniform(lb, ub, Raw(rng, 3))
           lhs == IF evalOrder = "lhs_first" THEN a ELSE b
           rhs == IF evalOrder = "lhs_first" THEN b ELSE a
       IN  /\ pos' = [pos EXCEPT ![i][d] = p]
           /\ vel' = [vel EXCEPT ![i][d] = (lhs - rhs) \div InitVelDiv]
           /\ pbest_pos' = [pbest_pos EXCEPT ![i][d] = p]
    /\ rng' = RngAfter(rng, 3)
    /\ draws' = <<draws[1] + 3, draws[2]>>
    /\ d' = d + 1
    /\ pc' = IF d + 1 < dim THEN "init" ELSE "init_eval"
    /\ UNCHANGED <<config_, seedSrc, evalOrder, nsets, cfgLog, W_np, X_np, W, X, k, s, dim, pop,
                   pbest_cost, cost, global_best_cost, gbest_pos, iter, i, printed,
                   evals, trace, last, prev>>

\* Lines 107-112, for particle i; then the next particle, or the loop.
InitEval ==
    /\ pc = "init_eval"
    /\ LET f   == eval_cost(pos[i])
           pbc == [pbest_cost EXCEPT ![i] = f]
           c   == [cost EXCEPT ![i] = f]
           g   == ImprovesGlobal(f)
           gbc == IF g THEN f ELSE global_best_cost
           gbp == IF g THEN pbest_pos[i] ELSE gbest_pos
       IN  /\ pbest_cost' = pbc
           /\ cost' = c
           /\ global_best_cost' = gbc
           /\ gbest_pos' = gbp
           /\ trace' = Append(trace, Snapshot(0, i, pos, vel, pbest_pos, pbc, c, gbc, gbp))
    /\ evals' = evals + 1
    /\ d' = 0
    /\ IF i + 1 < pop
          THEN i' = i + 1 /\ pc' = "init"
          ELSE i' = 0 /\ pc' = IF LoopCond(0) THEN "update" ELSE "extract"
    /\ UNCHANGED <<config_, seedSrc, evalOrder, nsets, cfgLog, W_np, X_np, W, X, k, s, dim, pop,
                   rng, pos, vel, pbest_pos, iter, printed, draws, last, prev>>

\* Lines 120-129 drawing r1 only when the particle is away from its personal
\* best.
UpdateDimLazy ==
    /\ pc = "update"
    /\ LET away == pbest_pos[i][d] # pos[i][d]
           r1 == IF away THEN Raw(rng, 1) ELSE 0
           r2 == IF away THEN Raw(rng, 2) ELSE Raw(rng, 1)
           v  == (config_.inertia * vel[i][d] * RngMod
                    + config_.c1 * r1 * (pbest_pos[i][d] - pos[i][d])
                    + config_.c2 * r2 * (gbest_pos[d] - pos[i][d]))
                 \div (CoefScale * RngMod)
       IN  /\ vel' = [vel EXCEPT ![i][d] = v]
           /\ pos' = [pos EXCEPT ![i][d] = Project(pos[i][d] + v)]
           /\ rng' = RngAfter(rng, IF away THEN 2 ELSE 1)
           /\ draws' = <<draws[1], draws[2] + (IF away THEN 2 ELSE 1)>>
    /\ d' = d + 1
    /\ pc' = IF d + 1 < dim THEN "update" ELSE "evaluate"
    /\ UNCHANGED <<config_, seedSrc, evalOrder, nsets, cfgLog, W_np, X_np, W, X, k, s, dim, pop,
                   pbest_pos, pbest_cost, cost, global_best_cost, gbest_pos, iter, i,
                   printed, evals, trace, last, prev>>

\* Lines 120-129 reading the global best position of the start of the round.
UpdateDimRoundStart ==
    /\ pc = "update"
    /\ LET r1 == Raw(rng, 1)
           r2 == Raw(rng, 2)
           v  == (config_.inertia * vel[i][d] * RngMod
                    + config_.c1 * r1 * (pbest_pos[i][d] - pos[i][d])
                    + config_.c2 * r2 * (trace[pop * (iter + 1)].gbest_pos[d] - pos[i][d]))
                 \div (CoefScale * RngMod)
       IN  /\ vel' = [vel EXCEPT ![i][d] = v]
           /\ pos' = [pos EXCEPT ![i][d] = Project(pos[i][d] + v)]
    /\ rng' = RngAfter(rng, 2)
    /\ draws' = <<draws[1], draws[2] + 2>>
    /\ d' = d + 1
    /\ pc' = IF d + 1 < dim THEN "update" ELSE "evaluate"
    /\ UNCHANGED <<config_, seedSrc, evalOrder, nsets, cfgLog, W_np, X_np, W, X, k, s, dim, pop,
                   pbest_pos, pbest_cost, cost, global_best_cost, gbest_pos, iter, i,
                   printed, evals, trace, last, prev>>

\* Lines 120-129, for particle i and dimension d.
UpdateDim ==
    /\ pc = "update"
    /\ LET r1 == Raw(rng, 1)
           r2 == Raw(rng, 2)
           v  == (config_.inertia * vel[i][d] * RngMod
                    + config_.c1 * r1 * (pbest_pos[i][d] - pos[i][d])
                    + config_.c2 * r2 * (gbest_pos[d] - pos[i][d]))
                 \div (CoefScale * RngMod)
       IN  /\ vel' = [vel EXCEPT ![i][d] = v]
           /\ pos' = [pos EXCEPT ![i][d] = Project(pos[i][d] + v)]
    /\ rng' = RngAfter(rng, 2)
    /\ draws' = <<draws[1], draws[2] + 2>>
    /\ d' = d + 1
    /\ pc' = IF d + 1 < dim THEN "update" ELSE "evaluate"
    /\ UNCHANGED <<config_, seedSrc, evalOrder, nsets, cfgLog, W_np, X_np, W, X, k, s, dim, pop,
                   pbest_pos, pbest_cost, cost, global_best_cost, gbest_pos, iter, i,
                   printed, evals, trace, last, prev>>

\* Lines 133-142, for particle i; then the next particle, or the end of the round.
Evaluate ==
    /\ pc = "evaluate"
    /\ LET f   == eval_cost(pos[i])
           c   == [cost EXCEPT ![i] = f]
           p   == ImprovesPersonal(f, i)
           g   == p /\ ImprovesGlobal(f)
           pbc == IF p THEN [pbest_cost EXCEPT ![i] = f] ELSE pbest_cost
           pbp == IF p THEN [pbest_pos EXCEPT ![i] = pos[i]] ELSE pbest_pos
           gbc == IF g THEN f ELSE global_best_cost
           gbp == IF g THEN pos[i] ELSE gbest_pos
       IN  /\ cost' = c
           /\ pbest_cost' = pbc
           /\ pbest_pos' = pbp
           /\ global_best_cost' = gbc
           /\ gbest_pos' = gbp
           /\ trace' = Append(trace, Snapshot(iter + 1, i, pos, vel, pbp, pbc, c, gbc, gbp))
    /\ evals' = evals + 1
    /\ d' = 0
    /\ IF i + 1 < pop
          THEN i' = i + 1 /\ pc' = "update"
          ELSE i' = 0 /\ pc' = "progress"
    /\ UNCHANGED <<config_, seedSrc, evalOrder, nsets, cfgLog, W_np, X_np, W, X, k, s, dim, pop,
                   rng, pos, vel, iter, printed, draws, last, prev>>

\* Lines 145-147 with a notification that draws one value from rng.
ProgressDrawing ==
    /\ pc = "progress"
    /\ printed' = IF ShouldPrint(iter)
                     THEN Append(printed, <<iter, global_best_cost>>)
                     ELSE printed
    /\ rng' = IF ShouldPrint(iter) THEN RngNext(rng) ELSE rng
    /\ draws' = IF ShouldPrint(iter) THEN <<draws[1], draws[2] + 1>> ELSE draws
    /\ iter' = iter + 1
    /\ pc' = IF LoopCond(iter + 1) THEN "update" ELSE "extract"
    /\ UNCHANGED <<config_, seedSrc, evalOrder, nsets, cfgLog, W_np, X_np, W, X, k, s, dim, pop,
                   pos, vel, pbest_pos, pbest_cost, cost, global_best_cost,
                   gbest_pos, i, d, evals, trace, last, prev>>

\* Lines 145-147 and the ++iter of line 116.
Progress ==
    /\ pc = "progress"
    /\ printed' = IF ShouldPrint(iter)
                     THEN Append(printed, <<iter, global_best_cost>>)
                     ELSE printed
    /\ iter' = iter + 1
    /\ pc' = IF LoopCond(iter + 1) THEN "update" ELSE "extract"
    /\ UNCHANGED <<config_, seedSrc, evalOrder, nsets, cfgLog, W_np, X_np, W, X, k, s, dim, pop,
                   rng, pos, vel, pbest_pos, pbest_cost, cost, global_best_cost,
                   gbest_pos, i, d, draws, evals, trace, last, prev>>

\* Lines 152-159: H_out is a c_style array of shape (k, s) whose buffer is
\* filled at j*k + i from gbest_pos[j*k + i].
HOut ==
    [ndim |-> 2, shape |-> <<k, s>>,
     data |-> [n \in 0..(k * s - 1) |->
                  LET j == n \div k
                      ii == n % k
                  IN  gbest_pos[j * k + ii]]]

\* Lines 150-161: build H_out and return it; the locals die with the call.
Extract ==
    /\ pc = "extract"
    /\ last' = Finished("returned", HOut) /\ prev' = last
    /\ pc' = "idle"
    /\ W_np' = NoArray /\ X_np' = NoArray
    /\ W' = <<>> /\ X' = <<>>
    /\ k' = 0 /\ s' = 0 /\ dim' = 0 /\ pop' = 0
    /\ rng' = <<>>
    /\ pos' = <<>> /\ vel' = <<>> /\ pbest_pos' = <<>> /\ pbest_cost' = <<>> /\ cost' = <<>>
    /\ global_best_cost' = Infinity /\ gbest_pos' = <<>>
    /\ iter' = 0 /\ i' = 0 /\ d' = 0
    /\ UNCHANGED <<config_, seedSrc, evalOrder, nsets, cfgLog, printed, draws, evals, trace>>

FitStep == Throw \/ Setup \/ InitDim \/ InitEval \/ UpdateDim \/ Evaluate \/ Progress \/ Extract

-----------------------------------------------------------------------------
(* One call of fit on an object built by PSO(cfg), over a wide range of      *)
(* configurations and inputs.                                               *)

RunConfigs ==
    { [population |-> p, max_iters |-> m, inertia |-> co[1], c1 |-> co[2], c2 |-> co[3],
       lb |-> b[1], ub |-> b[2], verbose |-> v, seed |-> sd] :
        p \in 0..MaxPop, m \in 0..MaxIters,
        co \in {<<DefaultInertia, DefaultC1, DefaultC2>>, <<50000, 0, 2 * CoefScale>>},
        b \in BoundValues, v \in BOOLEAN, sd \in {0, 1} }

RunInit ==
    /\ \E cfg \in RunConfigs, clock \in ClockValues :
          /\ config_ = CfgCtor(cfg, clock)
          /\ seedSrc = IF cfg.seed = 0 THEN "clock" ELSE "caller"
    /\ evalOrder \in EvalOrders
    /\ Fresh

RunNext ==
    \/ \E in \in Inputs : last.outcome = "none" /\ Call(in[1], in[2])
    \/ FitStep

RunSpec == RunInit /\ [][RunNext]_vars

-----------------------------------------------------------------------------
(* One call of fit that runs for more than PrintEvery rounds, on a swarm of  *)
(* two particles.                                                            *)

LongConfigs ==
    { [PSOConfig EXCEPT !.population = 2, !.max_iters = m, !.ub = 4,
                        !.verbose = v, !.seed = sd] :
        m \in {0, LongIters - 1, LongIters, LongIters + 1}, v \in BOOLEAN, sd \in {0, 1} }

LongInputs ==
    { <<NpArray(<<2, 1>>, <<1, 1>>), NpArray(<<1, 1>>, <<2>>)>>,
      <<NpArray(<<1, 1>>, <<1>>), NpArray(<<1, 2>>, <<2, 3>>)>>,
      <<NpArray(<<1, 1>>, <<1>>), NpArray(<<2, 1>>, <<2, 3>>)>> }

LongInit ==
    /\ \E cfg \in LongConfigs, clock \in ClockValues :
          /\ config_ = CfgCtor(cfg, clock)
          /\ seedSrc = IF cfg.seed = 0 THEN "clock" ELSE "caller"
    /\ evalOrder \in EvalOrders
    /\ Fresh

LongNext ==
    \/ \E in \in LongInputs : last.outcome = "none" /\ Call(in[1], in[2])
    \/ FitStep

LongSpec == LongInit /\ [][LongNext]_vars


-----------------------------------------------------------------------------
(* The setters, lines 165-172.  Each is called between two calls of fit.   *)

Set(name, arg, cfg, src) ==
    /\ pc = "idle"
    /\ config_' = cfg
    /\ seedSrc' = src
    /\ nsets' = nsets + 1
    /\ cfgLog' = [cfgLog EXCEPT !.calls = Append(@, [name |-> name, arg |-> arg])]
    /\ UNCHANGED <<evalOrder, pc, W_np, X_np, printed, draws, evals, trace, last, prev>>
    /\ UNCHANGED locals

set_population(p) ==
    Set("set_population", <<p>>, [config_ EXCEPT !.population = p], seedSrc)
set_max_iters(m) ==
    Set("set_max_iters", <<m>>, [config_ EXCEPT !.max_iters = m], seedSrc)
set_inertia(w) ==
    Set("set_inertia", <<w>>, [config_ EXCEPT !.inertia = w], seedSrc)
set_c1(c) ==
    Set("set_c1", <<c>>, [config_ EXCEPT !.c1 = c], seedSrc)
set_c2(c) ==
    Set("set_c2", <<c>>, [config_ EXCEPT !.c2 = c], seedSrc)
\* Line 170 without its second assignment.
set_bounds_lb(lb, ub) ==
    Set("set_bounds", <<lb, ub>>, [config_ EXCEPT !.lb = lb], seedSrc)
set_bounds(lb, ub) ==
    Set("set_bounds", <<lb, ub>>, [config_ EXCEPT !.lb = lb, !.ub = ub], seedSrc)
set_verbose(v) ==
    Set("set_verbose", <<v>>, [config_ EXCEPT !.verbose = v], seedSrc)
set_seed(sd) ==
    Set("set_seed", <<sd>>, [config_ EXCEPT !.seed = sd], "caller")

-----------------------------------------------------------------------------
(* The object's life: construction, then setters and calls of fit in any    *)
(* order.                                                                   *)

ApiConfigs ==
    { [PSOConfig EXCEPT !.population = 2, !.max_iters = 1, !.ub = 4, !.seed = sd] :
        sd \in {0, 1} }

ApiInputs ==
    { <<NpArray(<<2, 2>>, <<1, 0, 1, 1>>), NpArray(<<2, 1>>, <<2, 1>>)>>,
      <<NpArray(<<2, 1>>, <<1, 1>>),       NpArray(<<1, 1>>, <<2>>)>> }

Init ==
    /\ \E clock \in ClockValues :
          \/ config_ = DefaultCtor(clock) /\ seedSrc = "clock"
          \/ \E cfg \in ApiConfigs :
                /\ config_ = CfgCtor(cfg, clock)
                /\ seedSrc = IF cfg.seed = 0 THEN "clock" ELSE "caller"
    /\ evalOrder \in EvalOrders
    /\ Fresh

Setter ==
    \/ \E p \in 0..MaxPop : set_population(p)
    \/ \E m \in {0, MaxIters} : set_max_iters(m)
    \/ set_inertia(50000)
    \/ set_c1(0)
    \/ set_c2(CoefScale)
    \/ \E b \in {<<1, 3>>, <<2, 2>>} : set_bounds(b[1], b[2])
    \/ \E v \in BOOLEAN : set_verbose(v)
    \/ \E sd \in {0, 2} : set_seed(sd)

\* The model explores a call only when the configured sizes are within its
\* bounds.
Explored == config_.population <= MaxPop /\ config_.max_iters <= MaxIters

Next ==
    \/ nsets < MaxSets /\ Setter
    \/ \E in \in ApiInputs : Explored /\ Call(in[1], in[2])
    \/ FitStep

Spec == Init /\ [][Next]_vars

-----------------------------------------------------------------------------
(* Calls of fit on one object around a call of set_verbose.                  *)

VerboseConfigs ==
    { [PSOConfig EXCEPT !.population = 2, !.max_iters = m, !.ub = 4,
                        !.verbose = v, !.seed = sd] :
        m \in {1, MaxIters}, v \in BOOLEAN, sd \in {0, 1} }

VerboseInit ==
    /\ \E cfg \in VerboseConfigs, clock \in ClockValues :
          /\ config_ = CfgCtor(cfg, clock)
          /\ seedSrc = IF cfg.seed = 0 THEN "clock" ELSE "caller"
    /\ evalOrder \in EvalOrders
    /\ Fresh

VerboseNext ==
    \/ \E v \in BOOLEAN : nsets < MaxSets /\ set_verbose(v)
    \/ \E in \in ApiInputs : Explored /\ Call(in[1], in[2])
    \/ FitStep

VerboseSpec == VerboseInit /\ [][VerboseNext]_vars

-----------------------------------------------------------------------------
(* Sequences of setter calls on one object.                                  *)

SetterNext == nsets < MaxSeq /\ Setter

SetterSpec == Init /\ [][SetterNext]_vars

-----------------------------------------------------------------------------
(* A default-constructed object: setters to bring the sizes down, then calls *)
(* of fit.                                                                   *)

DefaultInit ==
    /\ \E clock \in ClockValues : config_ = DefaultCtor(clock)
    /\ seedSrc = "clock"
    /\ evalOrder \in EvalOrders
    /\ Fresh

DefaultNext ==
    \/ \E p \in {0, MaxPop} : nsets < MaxSeq /\ set_population(p)
    \/ \E m \in {1, MaxIters} : nsets < MaxSeq /\ set_max_iters(m)
    \/ \E in \in ApiInputs : Explored /\ Call(in[1], in[2])
    \/ FitStep

DefaultSpec == DefaultInit /\ [][DefaultNext]_vars


-----------------------------------------------------------------------------
(* Properties. *)

Running == pc \notin {"idle", "entered"}

\* Particle p's component q has been written by the running call.
Written(p, q) ==
    \/ pc = "init" /\ (p < i \/ (p = i /\ q < d))
    \/ pc = "init_eval" /\ p <= i
    \/ pc \in {"update", "evaluate", "progress", "extract"}

InBox(cfg, x) == cfg.lb <= x /\ x <= cfg.ub

\* C1: with lb <= ub, every written component of every position and personal
\* best position, and of the global best position once a particle has set it,
\* lies in [lb, ub]; so does every entry of the returned matrix.
C1_Bound ==
    /\ (Running /\ config_.lb <= config_.ub) =>
          /\ \A p \in DOMAIN pos : \A q \in DOMAIN pos[p] :
                Written(p, q) => InBox(config_, pos[p][q]) /\ InBox(config_, pbest_pos[p][q])
          /\ evals > 0 => \A q \in DOMAIN gbest_pos : InBox(config_, gbest_pos[q])
    /\ (last.outcome = "returned" /\ last.config.lb <= last.config.ub) =>
          \A n \in DOMAIN last.H.data : InBox(last.config, last.H.data[n])

\* C1's case: the loop has just moved particle i onto the upper bound, which
\* only the projection produces (the initial draws are below ub), under a
\* lower bound above the zero the vectors are created with.
C1_Witness ==
    /\ pc = "evaluate"
    /\ 0 < config_.lb /\ config_.lb < config_.ub
    /\ \E q \in DOMAIN pos[i] : pos[i][q] = config_.ub

\* C2: inside one call of fit no step raises global_best_cost.
C2_Monotone ==
    [][(pc \in {"init", "init_eval", "update", "evaluate", "progress"})
          => (global_best_cost' <= global_best_cost)]_vars

\* C2's case: an evaluation of the loop lowered the global best cost, and a
\* later evaluation of the loop found a higher cost and left it alone.
C2_Witness ==
    \E a \in DOMAIN trace : \E b \in DOMAIN trace :
        /\ 1 < a /\ a < b
        /\ trace[a].rnd >= 1
        /\ trace[a].global_best_cost < trace[a - 1].global_best_cost
        /\ trace[b].cost[trace[b].i] > trace[b].global_best_cost


\* The two most recent calls returned, on the same arrays.
TwoRuns ==
    /\ prev.outcome = "returned" /\ last.outcome = "returned"
    /\ prev.W_np = last.W_np /\ prev.X_np = last.X_np

\* C3: two calls with the same nonzero seed, the same Config and the same W
\* and X go through the same swarm states and return the same H.
C3_Determinism ==
    (TwoRuns /\ prev.config = last.config /\ last.config.seed # 0) =>
        /\ prev.trace = last.trace
        /\ prev.draws = last.draws
        /\ prev.H = last.H

\* C3's case: two such calls that ran at least one round of the loop.
C3_Witness ==
    /\ TwoRuns /\ prev.config = last.config /\ last.config.seed # 0
    /\ last.config.max_iters >= 1
    /\ last.draws[2] > 0

\* An input pair fit must reject: an array that is not 2-dimensional, or
\* different row counts.
BadInput(Wn, Xn) == Wn.ndim # 2 \/ Xn.ndim # 2 \/ Wn.shape[1] # Xn.shape[1]

\* C4: a call with such inputs creates no generator and no particle, draws
\* nothing, evaluates nothing, prints nothing, ends in the error, returns no
\* matrix and leaves the Config as it was.
C4_Validation ==
    /\ (pc # "idle" /\ BadInput(W_np, X_np)) =>
          /\ pc = "entered"
          /\ rng = <<>> /\ pos = <<>> /\ vel = <<>> /\ pbest_pos = <<>>
          /\ draws = <<0, 0>> /\ evals = 0 /\ printed = <<>> /\ trace = <<>>
    /\ (last.outcome # "none" /\ BadInput(last.W_np, last.X_np)) =>
          /\ last.outcome = "runtime_error"
          /\ last.H = NoArray
          /\ last.draws = <<0, 0>> /\ last.evals = 0
          /\ last.printed = <<>> /\ last.trace = <<>>
          /\ config_ = last.config

\* C4's case: a call with two 2-dimensional arrays of different row counts
\* has ended in the error.
C4_Witness ==
    /\ last.outcome = "runtime_error"
    /\ last.W_np.ndim = 2 /\ last.X_np.ndim = 2
    /\ last.W_np.shape[1] # last.X_np.shape[1]

\* A 2-D numpy array as the matrix the caller means.
CallerMatrix(a) ==
    [rc \in (0..(a.shape[1] - 1)) \X (0..(a.shape[2] - 1)) |-> NpAt(a, rc[1], rc[2])]

\* C5: every cost computed for a flattened candidate v is the squared
\* Frobenius norm of X - W*H for the caller's W and X and
\* H(i, j) = max(v[j*k + i], lb).
C5_Objective ==
    Running =>
        \A n \in DOMAIN trace :
            trace[n].cost[trace[n].i] =
                SquaredNorm(CallerMatrix(W_np), CallerMatrix(X_np),
                            HOf(trace[n].pos[trace[n].i], k, s), X_np.shape[1], k, s)

\* The global best position at the end of the last call.
FinalGbest == last.trace[Len(last.trace)].gbest_pos

\* C6: fit returns a k x s matrix whose entry (r, c) is
\* global_best_position[c*k + r].
C6_ResultExtraction ==
    last.outcome = "returned" =>
        LET kk == last.W_np.shape[2]
            ss == last.X_np.shape[2]
        IN  /\ last.H.ndim = 2 /\ last.H.shape = <<kk, ss>>
            /\ \A r \in 0..(kk - 1) : \A c \in 0..(ss - 1) :
                  NpAt(last.H, r, c) = FinalGbest[c * kk + r]

\* C7: two calls that differ only in population, both populations being 0, 1
\* or 2, end the same way with the same particles, draws, swarm states and H;
\* neither raises an error that the other does not, and both run 2 particles.
C7_PopulationFloor ==
    ( /\ prev.outcome # "none" /\ last.outcome # "none"
      /\ prev.W_np = last.W_np /\ prev.X_np = last.X_np
      /\ [prev.config EXCEPT !.population = MinPop] = [last.config EXCEPT !.population = MinPop]
      /\ prev.config.population \in 0..MinPop /\ last.config.population \in 0..MinPop ) =>
        /\ prev.outcome = last.outcome
        /\ prev.pop = last.pop
        /\ last.outcome = "returned" => last.pop = MinPop
        /\ prev.trace = last.trace
        /\ prev.draws = last.draws
        /\ prev.H = last.H

\* C7's case: a call with population 2 and then one with population 0 or 1,
\* nothing else changed, both returned.
C7_Witness ==
    /\ TwoRuns
    /\ prev.config.population = MinPop /\ last.config.population < MinPop
    /\ [prev.config EXCEPT !.population = 0] = [last.config EXCEPT !.population = 0]

\* dim = k * s of the last call.
LastDim == last.W_np.shape[2] * last.X_np.shape[2]

\* The initial position and cost of particle p in the last call.
InitialPos(p) == last.trace[p + 1].pos[p]
InitialCost(p) == last.trace[p + 1].cost[p]

\* The lowest-indexed particle with the minimum initial cost.
BestInitial ==
    CHOOSE p \in 0..(last.pop - 1) :
        /\ \A q \in 0..(last.pop - 1) : InitialCost(p) <= InitialCost(q)
        /\ \A q \in 0..(p - 1) : InitialCost(q) > InitialCost(p)

\* C8: with max_iters = 0 the call only initializes (pop evaluations, 3 draws
\* per component, no uniform(0,1) draw, nothing printed) and returns the
\* initial position of the lowest-indexed particle with the minimum initial cost.
C8_ZeroIterations ==
    (last.outcome = "returned" /\ last.config.max_iters = 0) =>
        /\ last.evals = last.pop /\ Len(last.trace) = last.pop
        /\ \A n \in DOMAIN last.trace : last.trace[n].rnd = 0
        /\ last.draws = <<3 * last.pop * LastDim, 0>>
        /\ last.printed = <<>>
        /\ last.H.data = InitialPos(BestInitial)

\* C8's case: such a call where a later particle ties with the best one at a
\* different position, so that the choice among them shows in the result.
C8_Witness ==
    /\ last.outcome = "returned" /\ last.config.max_iters = 0
    /\ \E q \in (BestInitial + 1)..(last.pop - 1) :
          /\ InitialCost(q) = InitialCost(BestInitial)
          /\ InitialPos(q) # InitialPos(BestInitial)

\* C9: whenever fit runs while the configured seed is 0, that seed was written
\* by the clock, not by the caller.
C9_SeedSentinel ==
    (Running /\ config_.seed = 0) => seedSrc = "clock"

\* C10, the count: a call that returns has run exactly max_iters rounds, each
\* evaluating particles 0..pop-1 once and in order after the pop initial
\* evaluations, pop * (1 + max_iters) evaluations in all.
C10_Rounds ==
    last.outcome = "returned" =>
        LET pp == last.pop
            m  == last.config.max_iters
        IN  /\ last.evals = pp * (1 + m)
            /\ Len(last.trace) = pp * (1 + m)
            /\ \A n \in DOMAIN last.trace :
                  /\ last.trace[n].rnd = (n - 1) \div pp
                  /\ last.trace[n].i = (n - 1) % pp

\* C10: a call of fit always ends, and it ends after exactly max_iters rounds.
C10_Termination ==
    /\ []C10_Rounds
    /\ (pc # "idle") ~> (pc = "idle")

\* C10's case: a call whose global best cost was already 0 before its last
\* round, and which ran that round all the same.
C10_Witness ==
    /\ last.outcome = "returned"
    /\ last.config.max_iters = MaxIters
    /\ \E n \in DOMAIN last.trace :
          /\ last.trace[n].rnd < MaxIters
          /\ last.trace[n].global_best_cost = 0

\* One call of fit, run to its end: the call is sequential code, so a step
\* that can be taken is taken.
\* C11: with verbose set, the notifications made so far are exactly one per
\* finished round iter with iter = 0, iter a multiple of 50 or iter =
\* max_iters - 1, in increasing order of iter, each carrying iter and the
\* global best cost after the last particle of that round; with verbose unset
\* or max_iters = 0 there is none.
NotifiedRounds(cfg, done) ==
    IF cfg.verbose
    THEN { it \in 0..(done - 1) : it = 0 \/ it % 50 = 0 \/ it = cfg.max_iters - 1 }
    ELSE {}

Cadence(cfg, done, np, out, tr) ==
    /\ Len(out) = Cardinality(NotifiedRounds(cfg, done))
    /\ { out[n][1] : n \in 1..Len(out) } = NotifiedRounds(cfg, done)
    /\ \A n \in 1..Len(out) :
          /\ n > 1 => out[n - 1][1] < out[n][1]
          /\ out[n][2] = tr[np * (out[n][1] + 2)].global_best_cost

C11_Cadence ==
    /\ pc \in {"update", "evaluate", "progress", "extract"} =>
          Cadence(config_, iter, pop, printed, trace)
    /\ last.outcome = "returned" =>
          Cadence(last.config, last.config.max_iters, last.pop, last.printed, last.trace)

C11_Witness ==
    /\ last.outcome = "returned"
    /\ last.config.verbose
    /\ last.config.max_iters > 1
    /\ (last.config.max_iters - 1) % 50 = 0
    /\ Len(last.printed) = 2

\* The two most recent calls differ in the verbose flag and in nothing else.
VerboseOnly ==
    /\ TwoRuns
    /\ prev.config.verbose # last.config.verbose
    /\ [prev.config EXCEPT !.verbose = last.config.verbose] = last.config

\* C12: two calls that differ only in verbose draw the same number of values,
\* go through the same swarm states and return the same H; and a step that
\* makes a notification leaves rng, positions, velocities, personal bests and
\* global best as they were.
C12_Silent ==
    /\ [](VerboseOnly =>
            /\ prev.draws = last.draws
            /\ prev.trace = last.trace
            /\ prev.H = last.H)
    /\ [][printed' # printed =>
            UNCHANGED <<rng, pos, vel, pbest_pos, pbest_cost, cost,
                        global_best_cost, gbest_pos>>]_vars

\* C12's case: of two such calls of at least two rounds, one made a
\* notification after each round and the other made none.
C12_Witness ==
    /\ VerboseOnly
    /\ last.config.max_iters >= 2
    /\ Len(prev.printed) + Len(last.printed) >= 2
    /\ prev.printed = <<>> \/ last.printed = <<>>

\* The argument idx of the last call of the setter name, or the value the
\* field was constructed with.
LastCall(name) ==
    LET at == { n \in 1..Len(cfgLog.calls) : cfgLog.calls[n].name = name }
    IN  IF at = {} THEN 0 ELSE CHOOSE n \in at : \A o \in at : o <= n

FieldAfter(name, idx, constructed) ==
    IF LastCall(name) = 0 THEN constructed ELSE cfgLog.calls[LastCall(name)].arg[idx]

\* C13: after any sequence of setter calls every Config field holds the value
\* of the last call of its own setter (set_bounds for lb and ub), or the value
\* it was constructed with if there was none.
C13_Setters ==
    config_ = [population |-> FieldAfter("set_population", 1, cfgLog.ctor.population),
               max_iters  |-> FieldAfter("set_max_iters", 1, cfgLog.ctor.max_iters),
               inertia    |-> FieldAfter("set_inertia", 1, cfgLog.ctor.inertia),
               c1         |-> FieldAfter("set_c1", 1, cfgLog.ctor.c1),
               c2         |-> FieldAfter("set_c2", 1, cfgLog.ctor.c2),
               lb         |-> FieldAfter("set_bounds", 1, cfgLog.ctor.lb),
               ub         |-> FieldAfter("set_bounds", 2, cfgLog.ctor.ub),
               verbose    |-> FieldAfter("set_verbose", 1, cfgLog.ctor.verbose),
               seed       |-> FieldAfter("set_seed", 1, cfgLog.ctor.seed)]

\* C13's case: set_bounds was called, and one setter was called twice with
\* different values.
C13_Witness ==
    /\ \E n \in 1..Len(cfgLog.calls) :
          cfgLog.calls[n].name = "set_bounds" /\ config_.ub # cfgLog.ctor.ub
    /\ \E n, o \in 1..Len(cfgLog.calls) :
          /\ n < o
          /\ cfgLog.calls[n].name = cfgLog.calls[o].name
          /\ cfgLog.calls[n].arg # cfgLog.calls[o].arg

\* The convention of lines 87-94: entry (r, c) of a matrix of kk rows is at
\* flat index c*kk + r.
FlatIndex(r, c, kk) == c * kk + r

Flatten(M, kk, ss) == [n \in 0..(kk * ss - 1) |-> M[<<n % kk, n \div kk>>]]

Unflatten(v, kk, ss) ==
    [rc \in (0..(kk - 1)) \X (0..(ss - 1)) |-> v[FlatIndex(rc[1], rc[2], kk)]]

\* C14: (r, c) -> c*k + r is a bijection onto 0..k*s-1 and flattening then
\* unflattening gives the matrix back, for all k, s >= 1; the evaluator
\* unflattens by this mapping, and the matrix fit returns is the unflattening
\* of the global best position, so that flattening it gives that vector back.
C14_RoundTrip ==
    /\ \A kk, ss \in 1..MaxDim :
          LET cells == (0..(kk - 1)) \X (0..(ss - 1))
              M == [rc \in cells |-> rc]
          IN  /\ { FlatIndex(rc[1], rc[2], kk) : rc \in cells } = 0..(kk * ss - 1)
              /\ \A rc, qd \in cells :
                    FlatIndex(rc[1], rc[2], kk) = FlatIndex(qd[1], qd[2], kk) => rc = qd
              /\ Unflatten(Flatten(M, kk, ss), kk, ss) = M
    /\ Running =>
          \A n \in DOMAIN trace :
              LET v == trace[n].pos[trace[n].i]
              IN  HOf(v, k, s) = [rc \in (0..(k - 1)) \X (0..(s - 1)) |->
                                     ClampLb(Unflatten(v, k, s)[rc])]
    /\ last.outcome = "returned" =>
          LET kk == last.W_np.shape[2]
              ss == last.X_np.shape[2]
          IN  /\ CallerMatrix(last.H) = Unflatten(FinalGbest, kk, ss)
              /\ Flatten(CallerMatrix(last.H), kk, ss) = FinalGbest

\* In the swarm state sn of np particles, the global best cost is the least
\* personal best cost and the global best position is the personal best
\* position of a particle that has it.
TracksSwarm(sn, np) ==
    /\ \A p \in 0..(np - 1) : sn.global_best_cost <= sn.pbest_cost[p]
    /\ \E p \in 0..(np - 1) :
          /\ sn.pbest_cost[p] = sn.global_best_cost
          /\ sn.pbest_pos[p] = sn.gbest_pos

\* C15: after initialization and after every evaluation of every round the
\* global best is the least personal best, held by a particle that attains
\* it; after initialization that particle is the lowest-indexed one of least
\* cost.
C15_GlobalBest ==
    /\ pc \in {"update", "evaluate", "progress", "extract"} =>
          /\ TracksSwarm([global_best_cost |-> global_best_cost, gbest_pos |-> gbest_pos,
                          pbest_cost |-> pbest_cost, pbest_pos |-> pbest_pos], pop)
          /\ \A n \in pop..Len(trace) : TracksSwarm(trace[n], pop)
          /\ LET first == CHOOSE p \in 0..(pop - 1) :
                             /\ \A q \in 0..(pop - 1) : trace[pop].cost[p] <= trace[pop].cost[q]
                             /\ \A q \in 0..(p - 1) : trace[pop].cost[p] < trace[pop].cost[q]
             IN  /\ trace[pop].global_best_cost = trace[pop].cost[first]
                 /\ trace[pop].gbest_pos = trace[pop].pos[first]
    /\ last.outcome = "returned" =>
          \A n \in last.pop..Len(last.trace) : TracksSwarm(last.trace[n], last.pop)

\* C15's case: two particles tied for the least initial cost at different
\* positions, and a later particle lowered the global best in a round of the
\* loop.
C15_Witness ==
    /\ pc = "progress"
    /\ \E p, q \in 0..(pop - 1) :
          /\ p < q
          /\ trace[pop].cost[p] = trace[pop].global_best_cost
          /\ trace[pop].cost[q] = trace[pop].global_best_cost
          /\ trace[pop].pos[p] # trace[pop].pos[q]
    /\ \E n \in (pop + 1)..Len(trace) :
          /\ trace[n].i >= 1
          /\ trace[n].global_best_cost < trace[n - 1].global_best_cost

\* C16: the evaluations of a call happen round by round and, inside a round,
\* particle by particle in increasing index; a particle's dimensions are
\* updated in increasing index; and the velocity update of particle i reads
\* the global best position as the latest evaluation left it, which is that
\* of particle i - 1 of the same round when i > 0.
C16_Visibility ==
    /\ [](Running =>
            /\ \A n \in 1..Len(trace) :
                  trace[n].i = (n - 1) % pop /\ trace[n].rnd = (n - 1) \div pop
            /\ pc \in {"update", "evaluate"} =>
                  Len(trace) = pop * (iter + 1) + i)
    /\ [][pc = "update" =>
            LET seen == trace[Len(trace)]
                v == (config_.inertia * vel[i][d] * RngMod
                        + config_.c1 * Raw(rng, 1) * (pbest_pos[i][d] - pos[i][d])
                        + config_.c2 * Raw(rng, 2) * (seen.gbest_pos[d] - pos[i][d]))
                     \div (CoefScale * RngMod)
            IN  /\ i > 0 => seen.i = i - 1 /\ seen.rnd = iter + 1
                /\ vel'[i][d] = v
                /\ d' = d + 1 /\ i' = i /\ iter' = iter
                /\ \A q \in (d + 1)..(dim - 1) : vel'[i][q] = vel[i][q] /\ pos'[i][q] = pos[i][q]]_vars

\* C16's case: a particle is about to be updated after an earlier particle of
\* the same round changed the global best position.
C16_Witness ==
    /\ pc = "update"
    /\ i >= 1
    /\ trace[Len(trace)].gbest_pos # trace[pop * (iter + 1)].gbest_pos
    /\ config_.c2 > 0

\* The swarm size and the dimension of a call with Config cfg on Wn and Xn.
SwarmSize(cfg) == IF cfg.population < 2 THEN 2 ELSE cfg.population

FlatDim(Wn, Xn) == Wn.shape[2] * Xn.shape[2]

\* C17: initialization draws 3 values per particle and dimension, every round
\* of the loop 2 more per particle and dimension, whatever the costs and the
\* verbose flag; a call that returns has drawn pop * dim * (3 + 2 * max_iters)
\* values, and the generator is always the seeded one advanced by the number
\* of values drawn.
C17_Draws ==
    /\ Running =>
          LET n == SwarmSize(config_) * FlatDim(W_np, X_np)
          IN  /\ rng = RngAfter(RngSeed(config_.seed), draws[1] + draws[2])
              /\ pc = "init" => draws = <<3 * (i * dim + d), 0>>
              /\ pc = "init_eval" => draws = <<3 * (i + 1) * dim, 0>>
              /\ pc = "update" => draws = <<3 * n, 2 * n * iter + 2 * (i * dim + d)>>
              /\ pc = "evaluate" => draws = <<3 * n, 2 * n * iter + 2 * (i + 1) * dim>>
              /\ pc = "progress" => draws = <<3 * n, 2 * n * (iter + 1)>>
              /\ pc = "extract" => draws = <<3 * n, 2 * n * config_.max_iters>>
    /\ last.outcome = "returned" =>
          LET n == SwarmSize(last.config) * FlatDim(last.W_np, last.X_np)
          IN  /\ last.draws = <<3 * n, 2 * n * last.config.max_iters>>
              /\ last.draws[1] + last.draws[2] = n * (3 + 2 * last.config.max_iters)

\* C17's case: a call of three particles in more than one dimension returned
\* after two rounds in which the global best improved.
C17_Witness ==
    /\ last.outcome = "returned"
    /\ last.pop = 3
    /\ FlatDim(last.W_np, last.X_np) >= 2
    /\ last.config.max_iters = 2
    /\ last.trace[Len(last.trace)].global_best_cost < last.trace[last.pop].global_best_cost

\* Particle p has been evaluated by the initialization of the running call.
Initialized(p) ==
    /\ Running
    /\ p \in 0..(pop - 1)
    /\ pc \in {"init", "init_eval"} => p < i

\* C18: for every initialized particle the personal best cost is the objective
\* at the personal best position and is at most the current cost; it never
\* increases; the personal best changes only by a strictly lower new cost, the
\* global best changes in the loop only together with a personal best, and an
\* evaluation that ties the personal best changes neither.
C18_PersonalBest ==
    /\ [](\A p \in 0..(MaxPop + 1) :
            Initialized(p) =>
                /\ pbest_cost[p] = eval_cost(pbest_pos[p])
                /\ pbest_cost[p] <= cost[p])
    /\ [][\A p \in 0..(MaxPop + 1) :
            (Initialized(p) /\ pc' # "idle") =>
                /\ pbest_cost'[p] <= pbest_cost[p]
                /\ (pbest_cost'[p] # pbest_cost[p] \/ pbest_pos'[p] # pbest_pos[p]) =>
                      /\ pc = "evaluate" /\ p = i
                      /\ cost'[p] < pbest_cost[p]
                      /\ pbest_cost'[p] = cost'[p] /\ pbest_pos'[p] = pos[p]
                /\ (pc = "evaluate" /\ p = i /\ eval_cost(pos[p]) >= pbest_cost[p]) =>
                      UNCHANGED <<pbest_cost, pbest_pos, global_best_cost, gbest_pos>>
                /\ (pc = "evaluate" /\ p = i /\ pbest_cost'[p] = pbest_cost[p]) =>
                      UNCHANGED <<global_best_cost, gbest_pos>>]_vars

\* C18's case: in a round of the loop a particle was evaluated away from its
\* personal best position at exactly its personal best cost, and kept its
\* personal best.
C18_Witness ==
    /\ Running
    /\ \E n \in (pop + 1)..Len(trace) :
          LET p == trace[n].i
          IN  /\ trace[n].cost[p] = trace[n - 1].pbest_cost[p]
              /\ trace[n].pos[p] # trace[n - 1].pbest_pos[p]
              /\ trace[n].pbest_pos = trace[n - 1].pbest_pos
              /\ trace[n].pbest_cost = trace[n - 1].pbest_cost

\* The vector v, handed to eval_cost, is within the bounds, so that neither
\* the clamp of line 91 nor a two-sided one changes a component.
ClampIdle(v) ==
    /\ \A q \in 0..(dim - 1) : config_.lb <= v[q] /\ v[q] <= config_.ub
    /\ HOf(v, k, s) = Unflatten(v, k, s)

\* C19: with lb <= ub every vector evaluated during a call has all its
\* components in [lb, ub], and the H the evaluator builds is the unflattened
\* vector itself.
C19_LowerClamp ==
    (Running /\ config_.lb <= config_.ub) =>
        /\ \A n \in 1..Len(trace) : ClampIdle(trace[n].pos[trace[n].i])
        /\ pc \in {"init_eval", "evaluate"} => ClampIdle(pos[i])

\* C19's case: a vector was evaluated after the projection of the loop had
\* raised one of its components to lb.
C19_Witness ==
    /\ Running /\ config_.lb < config_.ub
    /\ \E n \in (pop + 1)..Len(trace) :
          LET p == trace[n].i
          IN  \E q \in 0..(dim - 1) :
                  /\ trace[n].pos[p][q] = config_.lb
                  /\ trace[n - 1].pos[p][q] + trace[n].vel[p][q] < config_.lb

\* C20: no step of fit changes the Config, and two calls on one object with
\* the same Config (no setter in between) and the same W and X go through
\* the same swarm states and return the same H, also when the seed is the
\* clock value taken at construction.
C20_NoStateKept ==
    /\ []((TwoRuns /\ prev.config = last.config) =>
            /\ prev.H = last.H
            /\ prev.trace = last.trace
            /\ prev.draws = last.draws)
    /\ []((last.outcome # "none" /\ pc = "idle") =>
            /\ rng = <<>> /\ pos = <<>> /\ vel = <<>>
            /\ pbest_pos = <<>> /\ pbest_cost = <<>> /\ gbest_pos = <<>>)
    /\ [][(pc # "idle" \/ pc' # "idle") => config_' = config_]_vars

\* C20's case: a default-constructed object, seeded from the clock, returned
\* from two calls of at least one round on the same arrays with no setter in
\* between.
C20_Witness ==
    /\ TwoRuns /\ prev.config = last.config
    /\ pc = "idle" /\ config_ = last.config
    /\ seedSrc = "clock"
    /\ cfgLog.ctor.population = DefaultPopulation /\ cfgLog.ctor.max_iters = DefaultMaxIters
    /\ last.config.seed = cfgLog.ctor.seed /\ last.config.seed # 0
    /\ last.draws[2] > 0

FairRunSpec == RunInit /\ [][RunNext]_vars /\ WF_vars(FitStep)

=============================================================================
